---- MODULE Spec2Model ----
(***************************************************************************)
(* Batch transcription with speaker diarization and LLM refinement         *)
(* (src/test.py): the batch loop of process_files_from_csv, the stages of  *)
(* run_diarization, the two-attempt refinement of                          *)
(* process_transcript_with_llm / retry_with_modified_prompt with its role  *)
(* scoring and role resolution, and create_fallback_transcript.            *)
(***************************************************************************)
EXTENDS Integers, Sequences, FiniteSets, TLC

\* ------------------------------------------------------------------ bounds
MaxRows == 2
MaxSegs == 3
MaxSpeakers == 3
MaxStarts == 2700

\* Python's None for likely_customer / likely_agent (speaker numbers are >= 1).
None == 0

\* ------------------------------------------------------------------- texts
\* The utterances the transcriber may return for a segment.
Texts == {"Okay", "I lost my card", "May I have your account number?"}

\* The utterances of the role-scoring runs: one more, whose customer evidence
\* can equal the agent evidence of the others.
Utterances == Texts \cup {"my account"}

\* The two ways the agent's question of the two-cluster scenario is
\* transcribed.
ScenarioQuestions ==
  {"can I have your account number", "Can I have your account number?"}

\* Number of customer_phrases that are substrings of the lowercased text.
CustomerPhraseHits(t) ==
  CASE t = "I lost my card" -> 3        \* "lost", "my card", "i lost"
    [] t = "my account" -> 1            \* "my account"
    [] OTHER -> 0

\* Number of customer_patterns that re.search finds in the lowercased text.
CustomerPatternHits(t) ==
  CASE t = "I lost my card" -> 2        \* (my|our) (card|..), i (lost|..)
    [] t = "my account" -> 1            \* (my|our) (card|account|..)
    [] OTHER -> 0

\* Number of agent_phrases that are substrings of the lowercased text.
AgentPhraseHits(t) ==
  CASE t = "May I have your account number?" -> 2   \* "may i have", "may i have your"
    [] t = "thank you for calling" -> 2   \* "thank you for", "thank you for calling"
    [] OTHER -> 0

\* Number of agent_patterns that re.search finds in the lowercased text.
AgentPatternHits(t) ==
  CASE t = "May I have your account number?" -> 1   \* (could|may|can) (you|i) (have|..)
    [] t \in ScenarioQuestions -> 1                   \* (could|may|can) (you|i) (have|..)
    [] OTHER -> 0

\* text.lower().endswith("?")
EndsWithQuestion(t) ==
  t \in {"May I have your account number?", "Can I have your account number?"}

\* len(text.split())
WordCount(t) ==
  CASE t = "Okay" -> 1
    [] t = "I lost my card" -> 4
    [] t = "May I have your account number?" -> 6
    [] t = "my account" -> 2
    [] t \in ScenarioQuestions -> 6
    [] t = "thank you for calling" -> 4

\* ------------------------------------------------------------ format_time
\* Times are counted in tenths of a second; a rendered time is the sequence
\* of the characters of the string.
Digit(d) == <<"0", "1", "2", "3", "4", "5", "6", "7", "8", "9">>[d + 1]

\* "%d" % n for n >= 0
RECURSIVE Decimal(_)
Decimal(n) ==
  IF n < 10 THEN <<Digit(n)>> ELSE Append(Decimal(n \div 10), Digit(n % 10))

\* "%02d" % n for 0 <= n < 100
TwoDigits(n) == <<Digit(n \div 10), Digit(n % 10)>>

\* round(secs): to the nearest integer, a half to the even neighbour.
Round(tenths) ==
  LET q == tenths \div 10
      r == tenths % 10
  IN IF r < 5 THEN q
     ELSE IF r > 5 THEN q + 1
     ELSE IF q % 2 = 0 THEN q ELSE q + 1

\* str(datetime.timedelta(seconds=n)): "[D day[s], ]H:MM:SS", the hours
\* written with "%d".
TimedeltaStr(n) ==
  LET days == n \div 86400
      hh == (n % 86400) \div 3600
      mm == (n % 3600) \div 60
      ss == n % 60
      prefix == IF days = 0 THEN <<>>
                ELSE Decimal(days) \o <<" ", "d", "a", "y">>
                       \o (IF days # 1 THEN <<"s">> ELSE <<>>) \o <<",", " ">>
  IN prefix \o Decimal(hh) \o <<":">> \o TwoDigits(mm) \o <<":">> \o TwoDigits(ss)

format_time(secs) == TimedeltaStr(Round(secs))

\* --------------------------------------------------------------- variables
VARIABLES
  use_llm,          \* parameter of process_files_from_csv
  num_speakers,     \* parameter of process_files_from_csv
  pc,               \* position of the batch driver
  rows_left,        \* rows of df the loop's iterator has not yielded yet
  status,           \* outcome of the row that has just been left
  segments,         \* result["segments"] of the transcriber
  duration,         \* get_audio_duration of the converted file, in tenths
  embeddings,       \* per segment: what segment_embedding returned
  embed_failed,     \* some segment of the current file got the zero vector
  transcript_data,  \* what run_diarization returned
  requests,         \* requests.post calls made for the current transcript
  responses,        \* what the code read of each response received so far
  speaker_scores,   \* the dict of retry_with_modified_prompt, insertion order
  likely_customer,
  likely_agent,
  hints,            \* per segment: the speaker_hint of the second prompt
  final             \* final_transcript of the current row

vars == <<use_llm, num_speakers, pc, rows_left, status, segments, duration,
          embeddings, embed_failed, transcript_data, requests, responses,
          speaker_scores, likely_customer, likely_agent, hints, final>>

\* int(segment["speaker"].split()[-1])
SpeakerNum(segment) == segment.speaker

\* ------------------------------------------------------------- RoleScorer
\* Position of speaker s in the dict d (0 when s is not a key).
RECURSIVE KeyIndex(_, _, _)
KeyIndex(d, s, i) ==
  IF i > Len(d) THEN 0
  ELSE IF d[i].speaker = s THEN i ELSE KeyIndex(d, s, i + 1)

HasKey(d, s) == KeyIndex(d, s, 1) # 0

\* speaker_scores[s]
Get(d, s) == d[KeyIndex(d, s, 1)]

\* speaker_scores[s]["customer"] += n
AddCustomer(d, s, n) ==
  [d EXCEPT ![KeyIndex(d, s, 1)].customer = @ + n]

\* speaker_scores[s]["agent"] += n
AddAgent(d, s, n) ==
  [d EXCEPT ![KeyIndex(d, s, 1)].agent = @ + n]

\* Initialise the score dictionary: one (0,0) entry per speaker, in the order
\* in which speakers first appear.
RECURSIVE InitScores(_, _, _)
InitScores(td, i, d) ==
  IF i > Len(td) THEN d
  ELSE LET s == SpeakerNum(td[i]) IN
       InitScores(td, i + 1,
         IF HasKey(d, s) THEN d
         ELSE Append(d, [speaker |-> s, customer |-> 0, agent |-> 0]))

\* First pass: lexicon (+1 per phrase) and regex (+2 per pattern) evidence.
RECURSIVE TextPass(_, _, _)
TextPass(td, i, d) ==
  IF i > Len(td) THEN d
  ELSE LET s == SpeakerNum(td[i])
           t == td[i].text
           d1 == AddCustomer(d, s, CustomerPhraseHits(t))
           d2 == AddCustomer(d1, s, 2 * CustomerPatternHits(t))
           d3 == AddAgent(d2, s, AgentPhraseHits(t))
           d4 == AddAgent(d3, s, 2 * AgentPatternHits(t))
       IN TextPass(td, i + 1, d4)

\* Faulty variant: "=" instead of "+=", the agent evidence of the first and
\* the last speaker is overwritten.
PositionalBonus_Assign(td, d) ==
  IF Len(td) > 0
  THEN [d EXCEPT ![KeyIndex(d, SpeakerNum(td[1]), 1)].agent = 1,
                 ![KeyIndex(d, SpeakerNum(td[Len(td)]), 1)].agent = 1]
  ELSE d

\* Second pass: the first and the last speaker get +1 agent each.
PositionalBonus(td, d) ==
  IF Len(td) > 0
  THEN AddAgent(AddAgent(d, SpeakerNum(td[1]), 1), SpeakerNum(td[Len(td)]), 1)
  ELSE d

\* Faulty variant: the speakers are not compared, a speaker who goes on
\* after an own question scores as asker and as answerer.
RECURSIVE AdjacencyBonus_AnySpeaker(_, _, _)
AdjacencyBonus_AnySpeaker(td, i, d) ==
  IF i > Len(td) - 1 THEN d
  ELSE LET cur == SpeakerNum(td[i])
           nxt == SpeakerNum(td[i + 1])
       IN AdjacencyBonus_AnySpeaker(td, i + 1,
            IF EndsWithQuestion(td[i].text)
            THEN AddCustomer(AddAgent(d, cur, 1), nxt, 1)
            ELSE d)

\* Question-answer pairs: asker +1 agent, answerer +1 customer.
RECURSIVE AdjacencyBonus(_, _, _)
AdjacencyBonus(td, i, d) ==
  IF i > Len(td) - 1 THEN d
  ELSE LET cur == SpeakerNum(td[i])
           nxt == SpeakerNum(td[i + 1])
       IN AdjacencyBonus(td, i + 1,
            IF EndsWithQuestion(td[i].text) /\ cur # nxt
            THEN AddCustomer(AddAgent(d, cur, 1), nxt, 1)
            ELSE d)

\* The whole scoring of retry_with_modified_prompt.
ScoreTable(td) ==
  AdjacencyBonus(td, 1,
    PositionalBonus(td,
      TextPass(td, 1,
        InitScores(td, 1, <<>>))))

\* ----------------------------------------------------------- RoleResolver
Unassigned == [customer |-> None, agent |-> None]

\* Faulty variant: the "is None" tests are missing, a later speaker with the
\* same lead replaces the earlier one.
RECURSIVE PrimaryPass_LastWins(_, _, _)
PrimaryPass_LastWins(d, i, r) ==
  IF i > Len(d) THEN r
  ELSE PrimaryPass_LastWins(d, i + 1,
         IF d[i].customer > d[i].agent
         THEN [r EXCEPT !.customer = d[i].speaker]
         ELSE IF d[i].agent > d[i].customer
         THEN [r EXCEPT !.agent = d[i].speaker]
         ELSE r)

\* Faulty variant: the two comparisons are exchanged, the speaker with more
\* agent evidence becomes the customer.
RECURSIVE PrimaryPass_Swapped(_, _, _)
PrimaryPass_Swapped(d, i, r) ==
  IF i > Len(d) THEN r
  ELSE PrimaryPass_Swapped(d, i + 1,
         IF d[i].agent > d[i].customer /\ r.customer = None
         THEN [r EXCEPT !.customer = d[i].speaker]
         ELSE IF d[i].customer > d[i].agent /\ r.agent = None
         THEN [r EXCEPT !.agent = d[i].speaker]
         ELSE r)

\* Primary pass over speaker_scores.items(), in the dict's insertion order.
RECURSIVE PrimaryPass(_, _, _)
PrimaryPass(d, i, r) ==
  IF i > Len(d) THEN r
  ELSE PrimaryPass(d, i + 1,
         IF d[i].customer > d[i].agent /\ r.customer = None
         THEN [r EXCEPT !.customer = d[i].speaker]
         ELSE IF d[i].agent > d[i].customer /\ r.agent = None
         THEN [r EXCEPT !.agent = d[i].speaker]
         ELSE r)

\* Faulty variant: ">=" instead of ">", the last speaker with the highest
\* score is chosen.
RECURSIVE MaxCustomer_LastTie(_, _, _, _, _)
MaxCustomer_LastTie(d, i, agent, best, chosen) ==
  IF i > Len(d) THEN chosen
  ELSE IF d[i].speaker # agent /\ d[i].customer >= best
       THEN MaxCustomer_LastTie(d, i + 1, agent, d[i].customer, d[i].speaker)
       ELSE MaxCustomer_LastTie(d, i + 1, agent, best, chosen)

\* Highest customer score among the speakers other than likely_agent; a later
\* speaker replaces the choice only with a strictly higher score.
RECURSIVE MaxCustomer(_, _, _, _, _)
MaxCustomer(d, i, agent, best, chosen) ==
  IF i > Len(d) THEN chosen
  ELSE IF d[i].speaker # agent /\ d[i].customer > best
       THEN MaxCustomer(d, i + 1, agent, d[i].customer, d[i].speaker)
       ELSE MaxCustomer(d, i + 1, agent, best, chosen)

\* Highest agent score among the speakers other than likely_customer.
RECURSIVE MaxAgent(_, _, _, _, _)
MaxAgent(d, i, customer, best, chosen) ==
  IF i > Len(d) THEN chosen
  ELSE IF d[i].speaker # customer /\ d[i].agent > best
       THEN MaxAgent(d, i + 1, customer, d[i].agent, d[i].speaker)
       ELSE MaxAgent(d, i + 1, customer, best, chosen)

\* Faulty variant: the agent search does not skip the customer's cluster.
MaxScoreFallback_NoExclusion(d, r) ==
  LET r1 == IF r.customer = None
            THEN [r EXCEPT !.customer = MaxCustomer(d, 1, r.agent, -1, None)]
            ELSE r
  IN IF r1.agent = None
     THEN [r1 EXCEPT !.agent = MaxAgent(d, 1, None, -1, None)]
     ELSE r1

\* Faulty variant: the running maxima start at 0 instead of -1, so a cluster
\* with score 0 is never chosen.
MaxScoreFallback_ZeroFloor(d, r) ==
  LET r1 == IF r.customer = None
            THEN [r EXCEPT !.customer = MaxCustomer(d, 1, r.agent, 0, None)]
            ELSE r
  IN IF r1.agent = None
     THEN [r1 EXCEPT !.agent = MaxAgent(d, 1, r1.customer, 0, None)]
     ELSE r1

\* Faulty variant: the block is missing, the primary pass's result stands.
MaxScoreFallback_Skipped(d, r) == r

\* "If we still haven't identified, use the highest relative scores".
MaxScoreFallback(d, r) ==
  LET r1 == IF r.customer = None
            THEN [r EXCEPT !.customer = MaxCustomer(d, 1, r.agent, -1, None)]
            ELSE r
  IN IF r1.agent = None
     THEN [r1 EXCEPT !.agent = MaxAgent(d, 1, r1.customer, -1, None)]
     ELSE r1

\* speaker_words: words per speaker, keyed in first-appearance order.
RECURSIVE SpeakerWords(_, _, _)
SpeakerWords(td, i, w) ==
  IF i > Len(td) THEN w
  ELSE LET s == SpeakerNum(td[i])
           w1 == IF HasKey(w, s) THEN w
                 ELSE Append(w, [speaker |-> s, words |-> 0])
       IN SpeakerWords(td, i + 1,
            [w1 EXCEPT ![KeyIndex(w1, s, 1)].words = @ + WordCount(td[i].text)])

\* sorted(...)[0] of a stable ascending sort: the first entry with the
\* fewest words.
RECURSIVE FewestWords(_, _, _)
FewestWords(w, i, best) ==
  IF i > Len(w) THEN w[best].speaker
  ELSE FewestWords(w, i + 1, IF w[i].words < w[best].words THEN i ELSE best)

\* sorted(...)[-1] of a stable ascending sort: the last entry with the most
\* words.
RECURSIVE MostWords(_, _, _)
MostWords(w, i, best) ==
  IF i > Len(w) THEN w[best].speaker
  ELSE MostWords(w, i + 1, IF w[i].words >= w[best].words THEN i ELSE best)

\* "If we still couldn't identify both roles, make educated guesses".
WordCountFallback(td, r) ==
  IF r.customer = None /\ r.agent = None
  THEN LET w == SpeakerWords(td, 1, <<>>) IN
       IF Len(w) >= 2
       THEN [customer |-> FewestWords(w, 1, 1), agent |-> MostWords(w, 1, 1)]
       ELSE r
  ELSE r

\* likely_customer / likely_agent as retry_with_modified_prompt leaves them.
ResolveRoles(td, d) ==
  WordCountFallback(td, MaxScoreFallback(d, PrimaryPass(d, 1, Unassigned)))

\* ----------------------------------------------------- second-prompt hints
NoHint == [role |-> "none", score |-> 0]

\* speaker_hint of one segment: the role and, when positive, its score.
SpeakerHint(segment, d, r) ==
  LET s == SpeakerNum(segment) IN
  IF s = r.customer
  THEN [role |-> "CUSTOMER",
        score |-> IF HasKey(d, s) /\ Get(d, s).customer > 0
                  THEN Get(d, s).customer ELSE 0]
  ELSE IF s = r.agent
  THEN [role |-> "AGENT",
        score |-> IF HasKey(d, s) /\ Get(d, s).agent > 0
                  THEN Get(d, s).agent ELSE 0]
  ELSE NoHint

PromptHints(td, d, r) == [i \in 1..Len(td) |-> SpeakerHint(td[i], d, r)]

\* ----------------------------------------------------- TranscriptComposer
\* A line "<label> at <start_time>: <text>"; the label is a role, or
\* "SPEAKER" and the speaker's number.
Line(role, num, start_time, text) ==
  [role |-> role, num |-> num, start_time |-> start_time, text |-> text]

\* "SPEAKER n at <start_time>: <text>" for every segment: the fallback of
\* process_transcript_with_llm, with the generic speaker labels.
GenericTranscript(td) ==
  [i \in 1..Len(td) |->
     Line("SPEAKER", SpeakerNum(td[i]), td[i].start_time, td[i].text)]

\* Faulty variant: the comparison with likely_agent is missing, a segment
\* that is not the customer's goes to the guess.
FallbackRole_NoAgentTest(segment, customer, agent) ==
  LET s == SpeakerNum(segment) IN
  IF customer = None /\ agent = None
  THEN IF s % 2 = 1 THEN "CUSTOMER" ELSE "AGENT"
  ELSE IF s = customer THEN "CUSTOMER"
  ELSE IF customer = None THEN "CUSTOMER"
  ELSE IF agent = None THEN "AGENT"
  ELSE "SPEAKER"

\* The role create_fallback_transcript gives to one segment.
FallbackRole(segment, customer, agent) ==
  LET s == SpeakerNum(segment) IN
  IF customer = None /\ agent = None
  THEN IF s % 2 = 1 THEN "CUSTOMER" ELSE "AGENT"
  ELSE IF s = customer THEN "CUSTOMER"
  ELSE IF s = agent THEN "AGENT"
  ELSE IF customer = None THEN "CUSTOMER"
  ELSE IF agent = None THEN "AGENT"
  ELSE "SPEAKER"

\* Faulty variant: the last-resort fallback keeps the generic labels.
create_fallback_transcript_Generic(td, customer, agent) ==
  [i \in 1..Len(td) |->
     Line("SPEAKER", SpeakerNum(td[i]), td[i].start_time, td[i].text)]

\* Faulty variant: a segment of a speaker without a role is left out.
create_fallback_transcript_DropOthers(td, customer, agent) ==
  LET all == [i \in 1..Len(td) |->
                Line(FallbackRole(td[i], customer, agent), 0,
                     td[i].start_time, td[i].text)]
      HasRole(line) == line.role # "SPEAKER"
  IN SelectSeq(all, HasRole)

create_fallback_transcript(td, customer, agent) ==
  [i \in 1..Len(td) |->
     Line(FallbackRole(td[i], customer, agent), 0, td[i].start_time, td[i].text)]

\* The label in front of " at ": the role, or "SPEAKER n".
Label(line) ==
  IF line.num = 0 THEN <<line.role>>
  ELSE <<line.role, " ">> \o Decimal(line.num)

\* f"{role} at {start_time}: {text}", as the sequence of its pieces: the
\* label, " at ", the characters of the time, ": " and the text.
Render(line) ==
  Label(line) \o <<" at ">> \o line.start_time \o <<": ">> \o <<line.text>>

\* Formatting without LLM processing: a header entry whenever the speaker
\* changes, then the segment's text.
RECURSIVE PlainTranscript(_, _, _, _)
PlainTranscript(td, i, prev_speaker, out) ==
  IF i > Len(td) THEN out
  ELSE LET s == SpeakerNum(td[i])
           o1 == IF s # prev_speaker
                 THEN Append(out, Line("SPEAKER", s, td[i].start_time, ""))
                 ELSE out
       IN PlainTranscript(td, i + 1, s,
            Append(o1, Line("text", 0, <<>>, td[i].text)))

\* A transcript the pipeline composed itself.
Composed(source, lines) ==
  [source |-> source, lines |-> lines,
   has_agent |-> \E i \in 1..Len(lines) : lines[i].role = "AGENT",
   has_customer |-> \E i \in 1..Len(lines) : lines[i].role = "CUSTOMER"]

\* result[0]['outputs'][0]['text'] of a response: free text, of which the
\* code reads only whether "AGENT" and "CUSTOMER" occur in it.
LlmText(source, resp) ==
  [source |-> source, lines |-> <<>>,
   has_agent |-> resp.has_agent, has_customer |-> resp.has_customer]

NoTranscript ==
  [source |-> "none", lines |-> <<>>, has_agent |-> FALSE, has_customer |-> FALSE]

\* ------------------------------------------------------------ TextRefiner
HTTP_OK == 200

Response(transport_ok, status_code, wellformed, has_agent, has_customer) ==
  [transport_ok |-> transport_ok, status_code |-> status_code,
   wellformed |-> wellformed, has_agent |-> has_agent,
   has_customer |-> has_customer]

\* What requests.post may do: raise, answer with a non-200 status, answer 200
\* with a body that is not [{"outputs": [{"text": ...}]}], or answer 200 with
\* a text.
Responses ==
  {Response(FALSE, 0, FALSE, FALSE, FALSE)}
    \cup {Response(TRUE, 500, FALSE, FALSE, FALSE)}
    \cup {Response(TRUE, HTTP_OK, FALSE, FALSE, FALSE)}
    \cup {Response(TRUE, HTTP_OK, TRUE, a, c) : a, c \in BOOLEAN}

\* The branch "status_code == 200" completed without an exception.
GotText(resp) ==
  resp.transport_ok /\ resp.status_code = HTTP_OK /\ resp.wellformed

\* Faulty variant: "and" instead of "or", a text naming one role passes.
MissingRole_BothMissing(resp) == ~resp.has_agent /\ ~resp.has_customer

\* "AGENT" not in processed_transcript or "CUSTOMER" not in processed_transcript
MissingRole(resp) == ~resp.has_agent \/ ~resp.has_customer

\* ------------------------------------------------------------------- Init
Init ==
  /\ use_llm \in BOOLEAN
  /\ num_speakers \in 1..MaxSpeakers
  /\ pc = "start"
  /\ rows_left = 0
  /\ status = "none"
  /\ segments = <<>>
  /\ duration = 0
  /\ embeddings = <<>>
  /\ embed_failed = FALSE
  /\ transcript_data = <<>>
  /\ requests = 0
  /\ responses = <<>>
  /\ speaker_scores = <<>>
  /\ likely_customer = None
  /\ likely_agent = None
  /\ hints = <<>>
  /\ final = NoTranscript

\* The per-file values at the start of a loop iteration.
ResetFile ==
  /\ segments' = <<>>
  /\ duration' = 0
  /\ embeddings' = <<>>
  /\ embed_failed' = FALSE
  /\ transcript_data' = <<>>
  /\ requests' = 0
  /\ responses' = <<>>
  /\ speaker_scores' = <<>>
  /\ likely_customer' = None
  /\ likely_agent' = None
  /\ hints' = <<>>
  /\ final' = NoTranscript

\* Faulty variant: an error in one row ends the loop.
RowFailed_Abort(how) ==
  /\ status' = how
  /\ pc' = "done"

\* The except-clause of the loop body: log the error, go to the next row.
RowFailed(how) ==
  /\ status' = how
  /\ pc' = "row"

\* --------------------------------------------------- process_files_from_csv
\* pd.read_csv and the column check: the loop starts, or the function
\* returns before it.
ReadCsv ==
  /\ pc = "start"
  /\ \/ /\ pc' = "done"
        /\ status' = "csv_error"
        /\ UNCHANGED rows_left
     \/ /\ \E n \in 0..MaxRows : rows_left' = n
        /\ pc' = "row"
        /\ UNCHANGED status
  /\ UNCHANGED <<use_llm, num_speakers, segments, duration, embeddings,
                 embed_failed, transcript_data, requests, responses, speaker_scores,
                 likely_customer, likely_agent, hints, final>>

\* "File not found ... Skipping."
SkipMissing ==
  /\ pc = "row"
  /\ rows_left > 0
  /\ rows_left' = rows_left - 1
  /\ status' = "skipped"
  /\ pc' = "row"
  /\ UNCHANGED <<use_llm, num_speakers, segments, duration, embeddings,
                 embed_failed, transcript_data, requests, responses, speaker_scores,
                 likely_customer, likely_agent, hints, final>>

\* A row whose file_path cell is empty (read as NaN): os.path.exists raises
\* TypeError before the loop body's try, the except-clause around the loop
\* logs "Error reading CSV file" and the function ends.
BadRow ==
  /\ pc = "row"
  /\ rows_left > 0
  /\ rows_left' = rows_left - 1
  /\ status' = "csv_error"
  /\ pc' = "done"
  /\ UNCHANGED <<use_llm, num_speakers, segments, duration, embeddings,
                 embed_failed, transcript_data, requests, responses, speaker_scores,
                 likely_customer, likely_agent, hints, final>>

\* A segment of the transcriber: start and end in tenths of a second and the
\* text. Segment i follows segment i - 1 and lasts 65.5 seconds.
WhisperSegment(i, text) ==
  [start |-> (i - 1) * 655, end |-> i * 655, text |-> text]

SegmentLists ==
  UNION {{[i \in 1..n |-> WhisperSegment(i, t[i])] : t \in [1..n -> Texts]} :
           n \in 0..MaxSegs}

\* What get_audio_duration may return for a transcribed file: the audio
\* ends after the last segment's end, or the transcriber overshot the end of
\* the file by 30 seconds.
Durations(segs) ==
  IF segs = <<>> THEN {0}
  ELSE {segs[Len(segs)].end + 5, segs[Len(segs)].end - 300}

Min(a, b) == IF a <= b THEN a ELSE b

\* np.zeros(192), and the length of the embedding model's vectors.
EmbeddingDim == 192

\* What segment_embedding returns: the vector (of which the model keeps its
\* length and whether it is the zero fallback) and, beside it, the clip that
\* was cropped.
Embedding(kind, dim, start, end) ==
  [kind |-> kind, dim |-> dim, clip |-> [start |-> start, end |-> end]]

\* Faulty variant: no try/except, the extraction error propagates.
segment_embedding_Propagate(segment, dur, extraction) ==
  Embedding(IF extraction = "ok" THEN "vec" ELSE "raise", EmbeddingDim,
            segment.start, Min(dur, segment.end))

\* Faulty variant: the clip keeps the segment's own end.
segment_embedding_NoClamp(segment, dur, extraction) ==
  Embedding(IF extraction = "ok" THEN "vec" ELSE "zero", EmbeddingDim,
            segment.start, segment.end)

\* segment_embedding: the clip ends at min(duration, end); the result is the
\* embedding of the clip, or the zero vector when the crop or the embedding
\* model raised.
segment_embedding(segment, dur, extraction) ==
  Embedding(IF extraction = "ok" THEN "vec" ELSE "zero", EmbeddingDim,
            segment.start, Min(dur, segment.end))

\* run_diarization up to the clustering: the transcriber returns segments or
\* raises; then every segment gets its embedding.
Transcribe ==
  /\ pc = "row"
  /\ rows_left > 0
  /\ rows_left' = rows_left - 1
  /\ \/ /\ RowFailed("transcription_error")
        /\ UNCHANGED <<segments, duration, embeddings, embed_failed,
                       transcript_data, requests, responses, speaker_scores,
                       likely_customer, likely_agent, hints, final>>
     \/ \E segs \in SegmentLists :
          \E dur \in Durations(segs) :
            \E extraction \in [1..Len(segs) -> {"ok", "error"}] :
              LET emb == [i \in 1..Len(segs) |->
                            segment_embedding(segs[i], dur, extraction[i])]
              IN
              IF \E i \in 1..Len(segs) : emb[i].kind = "raise"
              THEN /\ RowFailed("embedding_error")
                   /\ UNCHANGED <<segments, duration, embeddings, embed_failed,
                                  transcript_data, requests, responses,
                                  speaker_scores, likely_customer,
                                  likely_agent, hints, final>>
              ELSE /\ segments' = segs
                   /\ duration' = dur
                   /\ embeddings' = emb
                   /\ embed_failed' =
                        (\E i \in 1..Len(segs) : emb[i].kind = "zero")
                   /\ pc' = "cluster"
                   /\ status' = "processing"
                   /\ UNCHANGED <<transcript_data, requests, responses,
                                  speaker_scores, likely_customer,
                                  likely_agent, hints, final>>
  /\ UNCHANGED <<use_llm, num_speakers>>

\* AgglomerativeClustering(n_clusters).fit needs at least 2 samples and at
\* least n_clusters samples, and raises otherwise.
CanCluster(n, k) == n >= 2 /\ n >= k

\* labels_: every one of the k clusters is used.
Labelings(n, k) ==
  {l \in [1..n -> 0..(k - 1)] : \A c \in 0..(k - 1) : \E i \in 1..n : l[i] = c}

\* transcript_data of run_diarization: speaker "SPEAKER <label + 1>".
TranscriptData(segs, labels) ==
  [i \in 1..Len(segs) |->
     [speaker |-> labels[i] + 1,
      start_time |-> format_time(segs[i].start),
      text |-> segs[i].text]]

\* The clustering and the rest of run_diarization, then the loop body up to
\* the first request (use_llm) or the plain formatting.
Cluster ==
  /\ pc = "cluster"
  /\ IF ~CanCluster(Len(segments), num_speakers)
     THEN /\ RowFailed("clustering_error")
          /\ ResetFile
     ELSE \E labels \in Labelings(Len(segments), num_speakers) :
            LET td == TranscriptData(segments, labels) IN
            /\ transcript_data' = td
            /\ IF use_llm
               THEN /\ requests' = 1
                    /\ pc' = "attempt1"
                    /\ final' = NoTranscript
               ELSE /\ requests' = 0
                    /\ pc' = "save"
                    /\ final' = Composed("plain", PlainTranscript(td, 1, None, <<>>))
            /\ segments' = <<>>
            /\ duration' = 0
            /\ embeddings' = <<>>
            /\ UNCHANGED <<status, embed_failed, responses, speaker_scores,
                           likely_customer, likely_agent, hints>>
  /\ UNCHANGED <<use_llm, num_speakers, rows_left>>

\* ---------------------------------------------- process_transcript_with_llm
\* What the code reads of a response: whether requests.post returned, the
\* status code, whether the body had the expected shape, and whether its text
\* names both roles.
Observed(resp) ==
  [transport_ok |-> resp.transport_ok, status_code |-> resp.status_code,
   wellformed |-> resp.wellformed,
   both_roles |-> resp.has_agent /\ resp.has_customer]

\* Faulty variant: a non-200 status goes to the retry instead of the fallback.
FirstAttempt_RetryOnError(resp) ==
  IF ~resp.transport_ok THEN "exception"
  ELSE IF resp.status_code = HTTP_OK
       THEN IF ~resp.wellformed THEN "exception"
            ELSE IF MissingRole(resp) THEN "retry"
            ELSE "accept"
       ELSE "retry"

\* Faulty variant: every 200 text is retried, also one naming both roles.
FirstAttempt_AlwaysRetry(resp) ==
  IF ~resp.transport_ok THEN "exception"
  ELSE IF resp.status_code = HTTP_OK
       THEN IF ~resp.wellformed THEN "exception" ELSE "retry"
       ELSE "error_status"

\* Faulty variant: the body is parsed outside the try, so a malformed body
\* raises to the caller.
FirstAttempt_Unguarded(resp) ==
  IF ~resp.transport_ok THEN "exception"
  ELSE IF resp.status_code = HTTP_OK
       THEN IF ~resp.wellformed THEN "raise"
            ELSE IF MissingRole(resp) THEN "retry"
            ELSE "accept"
       ELSE "error_status"

\* The branch process_transcript_with_llm takes on the first response.
FirstAttempt(resp) ==
  IF ~resp.transport_ok THEN "exception"
  ELSE IF resp.status_code = HTTP_OK
       THEN IF ~resp.wellformed THEN "exception"
            ELSE IF MissingRole(resp) THEN "retry"
            ELSE "accept"
       ELSE "error_status"

\* The first response arrives. A 200 with both role names is returned as it
\* is; a 200 lacking one calls retry_with_modified_prompt, which scores,
\* resolves and sends the second request; a non-200 status and any exception
\* return the transcript with the generic speaker labels. An exception that
\* escaped would reach the except-clause of the batch loop.
Response1 ==
  /\ pc = "attempt1"
  /\ \E resp \in Responses :
       LET branch == FirstAttempt(resp) IN
       CASE branch = "accept" ->
              /\ final' = LlmText("attempt1", resp)
              /\ responses' = Append(responses, Observed(resp))
              /\ pc' = "save"
              /\ UNCHANGED <<status, embed_failed, transcript_data, requests,
                             speaker_scores, likely_customer, likely_agent,
                             hints, segments, duration, embeddings>>
         [] branch = "retry" ->
              LET d == ScoreTable(transcript_data)
                  r == ResolveRoles(transcript_data, d)
              IN /\ speaker_scores' = d
                 /\ likely_customer' = r.customer
                 /\ likely_agent' = r.agent
                 /\ hints' = PromptHints(transcript_data, d, r)
                 /\ requests' = requests + 1
                 /\ responses' = Append(responses, Observed(resp))
                 /\ pc' = "attempt2"
                 /\ UNCHANGED <<status, embed_failed, transcript_data, final,
                                segments, duration, embeddings>>
         [] branch \in {"error_status", "exception"} ->
              /\ final' = Composed("generic", GenericTranscript(transcript_data))
              /\ responses' = Append(responses, Observed(resp))
              /\ pc' = "save"
              /\ UNCHANGED <<status, embed_failed, transcript_data, requests,
                             speaker_scores, likely_customer, likely_agent,
                             hints, segments, duration, embeddings>>
         [] OTHER ->
              /\ RowFailed("refinement_error")
              /\ ResetFile
  /\ UNCHANGED <<use_llm, num_speakers, rows_left>>

\* ----------------------------------------------- retry_with_modified_prompt
\* Faulty variant: the second text is validated like the first, and a text
\* lacking a role goes to the fallback.
SecondAttempt_Revalidate(resp) ==
  IF ~resp.transport_ok THEN "exception"
  ELSE IF resp.status_code = HTTP_OK
       THEN IF ~resp.wellformed THEN "exception"
            ELSE IF MissingRole(resp) THEN "error_status"
            ELSE "accept"
       ELSE "error_status"

\* The branch retry_with_modified_prompt takes on the second response.
SecondAttempt(resp) ==
  IF ~resp.transport_ok THEN "exception"
  ELSE IF resp.status_code = HTTP_OK
       THEN IF ~resp.wellformed THEN "exception" ELSE "accept"
       ELSE "error_status"

\* The second response arrives: a 200 with a text is returned unchecked,
\* everything else returns create_fallback_transcript.
Response2 ==
  /\ pc = "attempt2"
  /\ \E resp \in Responses :
       LET branch == SecondAttempt(resp) IN
       CASE branch = "accept" ->
              /\ final' = LlmText("attempt2", resp)
              /\ responses' = Append(responses, Observed(resp))
              /\ pc' = "save"
              /\ UNCHANGED <<status, embed_failed, transcript_data, requests,
                             speaker_scores, likely_customer, likely_agent,
                             hints, segments, duration, embeddings>>
         [] branch \in {"error_status", "exception"} ->
              /\ final' = Composed("roles",
                   create_fallback_transcript(transcript_data, likely_customer,
                                              likely_agent))
              /\ responses' = Append(responses, Observed(resp))
              /\ pc' = "save"
              /\ UNCHANGED <<status, embed_failed, transcript_data, requests,
                             speaker_scores, likely_customer, likely_agent,
                             hints, segments, duration, embeddings>>
         [] OTHER ->
              /\ RowFailed("refinement_error")
              /\ ResetFile
  /\ UNCHANGED <<use_llm, num_speakers, rows_left>>

\* open(output_file, 'w') and f.write: the transcript is saved, or the write
\* raises and the except-clause logs it.
Save ==
  /\ pc = "save"
  /\ \/ /\ status' = "saved"
        /\ pc' = "row"
     \/ RowFailed("write_error")
  /\ ResetFile
  /\ UNCHANGED <<use_llm, num_speakers, rows_left>>

\* The iterator over the rows is exhausted.
Finish ==
  /\ pc = "row"
  /\ rows_left = 0
  /\ pc' = "done"
  /\ UNCHANGED <<use_llm, num_speakers, rows_left, status, segments,
                 duration, embeddings, embed_failed, transcript_data, requests,
                 responses, speaker_scores, likely_customer, likely_agent,
                 hints, final>>

Next ==
  \/ ReadCsv
  \/ SkipMissing
  \/ BadRow
  \/ Transcribe
  \/ Cluster
  \/ Response1
  \/ Response2
  \/ Save
  \/ Finish

Spec == Init /\ [][Next]_vars

\* ------------------------------ retry_with_modified_prompt, stage by stage
\* The conversations run_diarization can hand over: at least 2 segments
\* (fewer make the clustering raise), texts from T.
Conversations(T) ==
  UNION {{[i \in 1..n |-> WhisperSegment(i, t[i])] : t \in [1..n -> T]} :
           n \in 2..MaxSegs}

\* The values outside retry_with_modified_prompt at the time of the call.
CallContext ==
  /\ use_llm = TRUE
  /\ pc = "init_scores"
  /\ rows_left = 0
  /\ status = "processing"
  /\ segments = <<>>
  /\ duration = 0
  /\ embeddings = <<>>
  /\ embed_failed = FALSE
  /\ requests = 0
  /\ responses = <<>>
  /\ speaker_scores = <<>>
  /\ likely_customer = None
  /\ likely_agent = None
  /\ hints = <<>>
  /\ final = NoTranscript

\* A call of retry_with_modified_prompt on any transcript of run_diarization.
ScorerInit ==
  /\ num_speakers \in 1..MaxSpeakers
  /\ \E segs \in Conversations(Utterances) :
       /\ CanCluster(Len(segs), num_speakers)
       /\ \E labels \in Labelings(Len(segs), num_speakers) :
            transcript_data = TranscriptData(segs, labels)
  /\ CallContext

\* The two-cluster scenario: cluster 0 says "my account" and "I lost my
\* card", cluster 1 asks for the account number and says "thank you for
\* calling"; the four segments come in any order.
ScenarioInit ==
  /\ num_speakers = 2
  /\ \E question \in ScenarioQuestions :
       \E order \in {f \in [1..4 -> 1..4] : \A a, b \in 1..4 : f[a] = f[b] => a = b} :
         LET said == << [cluster |-> 0, text |-> "my account"],
                        [cluster |-> 0, text |-> "I lost my card"],
                        [cluster |-> 1, text |-> question],
                        [cluster |-> 1, text |-> "thank you for calling"] >>
             segs == [i \in 1..4 |-> WhisperSegment(i, said[order[i]].text)]
             labels == [i \in 1..4 |-> said[order[i]].cluster]
         IN transcript_data = TranscriptData(segs, labels)
  /\ CallContext

\* "Initialize score dictionary for each speaker"
InitializeScores ==
  /\ pc = "init_scores"
  /\ speaker_scores' = InitScores(transcript_data, 1, <<>>)
  /\ pc' = "text_pass"
  /\ UNCHANGED <<use_llm, num_speakers, rows_left, status, segments, duration,
                 embeddings, embed_failed, transcript_data, requests,
                 responses, likely_customer, likely_agent, hints, final>>

\* "First pass: evaluate text-based evidence"
EvaluateText ==
  /\ pc = "text_pass"
  /\ speaker_scores' = TextPass(transcript_data, 1, speaker_scores)
  /\ pc' = "positional"
  /\ UNCHANGED <<use_llm, num_speakers, rows_left, status, segments, duration,
                 embeddings, embed_failed, transcript_data, requests,
                 responses, likely_customer, likely_agent, hints, final>>

\* "Second pass: analyze conversation structure"
ConversationStructure ==
  /\ pc = "positional"
  /\ speaker_scores' = PositionalBonus(transcript_data, speaker_scores)
  /\ pc' = "adjacency"
  /\ UNCHANGED <<use_llm, num_speakers, rows_left, status, segments, duration,
                 embeddings, embed_failed, transcript_data, requests,
                 responses, likely_customer, likely_agent, hints, final>>

\* "Look for question-answer patterns"
QuestionAnswer ==
  /\ pc = "adjacency"
  /\ speaker_scores' = AdjacencyBonus(transcript_data, 1, speaker_scores)
  /\ pc' = "primary"
  /\ UNCHANGED <<use_llm, num_speakers, rows_left, status, segments, duration,
                 embeddings, embed_failed, transcript_data, requests,
                 responses, likely_customer, likely_agent, hints, final>>

\* "Identify the most likely customer and agent based on scores"
IdentifyRoles ==
  /\ pc = "primary"
  /\ LET r == PrimaryPass(speaker_scores, 1, Unassigned) IN
       /\ likely_customer' = r.customer
       /\ likely_agent' = r.agent
  /\ pc' = "max_score"
  /\ UNCHANGED <<use_llm, num_speakers, rows_left, status, segments, duration,
                 embeddings, embed_failed, transcript_data, requests,
                 responses, speaker_scores, hints, final>>

\* "If we still haven't identified, use the highest relative scores"
HighestScores ==
  /\ pc = "max_score"
  /\ LET r == MaxScoreFallback(speaker_scores,
                [customer |-> likely_customer, agent |-> likely_agent]) IN
       /\ likely_customer' = r.customer
       /\ likely_agent' = r.agent
  /\ pc' = "word_count"
  /\ UNCHANGED <<use_llm, num_speakers, rows_left, status, segments, duration,
                 embeddings, embed_failed, transcript_data, requests,
                 responses, speaker_scores, hints, final>>

\* "If we still couldn't identify both roles, make educated guesses"
EducatedGuess ==
  /\ pc = "word_count"
  /\ LET r == WordCountFallback(transcript_data,
                [customer |-> likely_customer, agent |-> likely_agent]) IN
       /\ likely_customer' = r.customer
       /\ likely_agent' = r.agent
  /\ pc' = "hints"
  /\ UNCHANGED <<use_llm, num_speakers, rows_left, status, segments, duration,
                 embeddings, embed_failed, transcript_data, requests,
                 responses, speaker_scores, hints, final>>

\* "Create a more explicit prompt with speaker hints", and the request.
ExplicitPrompt ==
  /\ pc = "hints"
  /\ hints' = PromptHints(transcript_data, speaker_scores,
                 [customer |-> likely_customer, agent |-> likely_agent])
  /\ requests' = requests + 1
  /\ pc' = "attempt2"
  /\ UNCHANGED <<use_llm, num_speakers, rows_left, status, segments, duration,
                 embeddings, embed_failed, transcript_data, responses,
                 speaker_scores, likely_customer, likely_agent, final>>

ScorerNext ==
  \/ InitializeScores
  \/ EvaluateText
  \/ ConversationStructure
  \/ QuestionAnswer
  \/ IdentifyRoles
  \/ HighestScores
  \/ EducatedGuess
  \/ ExplicitPrompt
  \/ Response2

ScorerSpec == ScorerInit /\ [][ScorerNext]_vars

\* ------------------------------------------- the pipeline over start times
\* The start of the first segment: every 32.5 seconds from 0 to beyond 24
\* hours, in tenths of a second.
StartTimes == {k * 325 : k \in 0..MaxStarts}

\* run_diarization before the clustering, for a file of two segments of
\* which the first starts at any of StartTimes.
FormatInit ==
  /\ use_llm = TRUE
  /\ num_speakers \in 1..2
  /\ pc = "cluster"
  /\ rows_left = 0
  /\ status = "processing"
  /\ \E start \in StartTimes :
       /\ segments = << [start |-> start, end |-> start + 655, text |-> "Okay"],
                        [start |-> start + 655, end |-> start + 1310,
                         text |-> "I lost my card"] >>
       /\ duration = start + 1315
  /\ embeddings = [i \in 1..2 |-> segment_embedding(segments[i], duration, "ok")]
  /\ embed_failed = FALSE
  /\ transcript_data = <<>>
  /\ requests = 0
  /\ responses = <<>>
  /\ speaker_scores = <<>>
  /\ likely_customer = None
  /\ likely_agent = None
  /\ hints = <<>>
  /\ final = NoTranscript

FormatNext ==
  \/ Cluster
  \/ Response1
  \/ Response2

FormatSpec == FormatInit /\ [][FormatNext]_vars

ScenarioSpec == ScenarioInit /\ [][ScorerNext]_vars

\* ------------------------------------------------------------- properties
\* The clusters that occur in a transcript.
Clusters(td) == {SpeakerNum(td[i]) : i \in 1..Len(td)}

\* The first / second response was a 200 whose body held a text.
FirstGotText ==
  /\ Len(responses) >= 1
  /\ responses[1].transport_ok
  /\ responses[1].status_code = 200
  /\ responses[1].wellformed

SecondGotText ==
  /\ Len(responses) = 2
  /\ responses[2].transport_ok
  /\ responses[2].status_code = 200
  /\ responses[2].wellformed

\* The first response was HTTP 500.
FirstWas500 ==
  /\ Len(responses) >= 1
  /\ responses[1].transport_ok
  /\ responses[1].status_code = 500

\* final is the transcript with the raw "SPEAKER n" labels, line by line.
FinalIsGeneric ==
  /\ final.source = "generic"
  /\ Len(final.lines) = Len(transcript_data)
  /\ \A i \in 1..Len(transcript_data) :
       /\ final.lines[i].role = "SPEAKER"
       /\ final.lines[i].num = transcript_data[i].speaker
       /\ final.lines[i].text = transcript_data[i].text

\* final labels every line with the role of its segment's cluster.
FinalIsRoleResolved ==
  /\ Len(final.lines) = Len(transcript_data)
  /\ \A i \in 1..Len(transcript_data) :
       /\ final.lines[i].num = 0
       /\ final.lines[i].text = transcript_data[i].text
       /\ final.lines[i].role =
            IF transcript_data[i].speaker = likely_customer THEN "CUSTOMER"
            ELSE IF transcript_data[i].speaker = likely_agent THEN "AGENT"
            ELSE "SPEAKER"

\* C1 (as stated): after an HTTP 500 on attempt 1 the orchestrator goes on to
\* attempt 2, a second request is sent.
C1_Original == FirstWas500 => requests = 2

\* C1 (amended): after an HTTP 500 on attempt 1 no second request is sent;
\* the call returns at once with the generic "SPEAKER n" transcript, and
\* neither scoring nor role resolution has run.
C1_ErrorStatusFallsBack ==
  FirstWas500 =>
    /\ pc = "save"
    /\ requests = 1
    /\ Len(responses) = 1
    /\ FinalIsGeneric
    /\ speaker_scores = <<>>
    /\ hints = <<>>

C1_Witness == FirstWas500 /\ pc = "save" /\ Len(final.lines) >= 2

HintsFollowAssignment ==
  /\ Len(hints) = Len(transcript_data)
  /\ \A i \in 1..Len(transcript_data) :
       LET s == transcript_data[i].speaker IN
       /\ s = likely_customer =>
            /\ hints[i].role = "CUSTOMER"
            /\ \E k \in 1..Len(speaker_scores) :
                 /\ speaker_scores[k].speaker = s
                 /\ hints[i].score = speaker_scores[k].customer
       /\ (s # likely_customer /\ s = likely_agent) =>
            /\ hints[i].role = "AGENT"
            /\ \E k \in 1..Len(speaker_scores) :
                 /\ speaker_scores[k].speaker = s
                 /\ hints[i].score = speaker_scores[k].agent
       /\ (s # likely_customer /\ s # likely_agent) => hints[i].role = "none"
  /\ \E i \in 1..Len(hints) : hints[i].role # "none"

\* C3: a 200 on attempt 1 whose text lacks "AGENT" or "CUSTOMER" is never
\* accepted; a second request is made, and its prompt carries the role hints
\* of the scores and the resolved assignment.
C3_RetryWithHints ==
  /\ final.source = "attempt1" => (final.has_agent /\ final.has_customer)
  /\ (FirstGotText /\ ~responses[1].both_roles) =>
       /\ pc \in {"attempt2", "save"}
       /\ requests = 2
       /\ final.source # "attempt1"
       /\ speaker_scores # <<>>
       /\ HintsFollowAssignment

C3_Witness ==
  /\ pc = "attempt2"
  /\ FirstGotText /\ ~responses[1].both_roles
  /\ \E i, j \in 1..Len(hints) :
       /\ hints[i].role = "CUSTOMER" /\ hints[i].score > 0
       /\ hints[j].role = "AGENT"

\* C4: a 200 on attempt 1 whose text names both roles is accepted: that text
\* is returned, no second request is made, and neither the scorer, the
\* resolver nor the fallback composer runs.
C4_AcceptFirst ==
  (FirstGotText /\ responses[1].both_roles) =>
    /\ pc = "save"
    /\ final.source = "attempt1"
    /\ final.has_agent /\ final.has_customer
    /\ final.lines = <<>>
    /\ requests = 1
    /\ Len(responses) = 1
    /\ speaker_scores = <<>>
    /\ likely_customer = None /\ likely_agent = None
    /\ hints = <<>>

C4_Witness ==
  /\ pc = "save"
  /\ FirstGotText /\ responses[1].both_roles
  /\ final.source = "attempt1"

\* C5: on attempt 2 every 200 with a text is accepted and that text returned,
\* whether or not it names both roles; an accepted transcript lacking a role
\* can only come from attempt 2.
C5_NoRevalidation ==
  /\ SecondGotText =>
       /\ pc = "save"
       /\ final.source = "attempt2"
       /\ final.lines = <<>>
       /\ (final.has_agent /\ final.has_customer) = responses[2].both_roles
  /\ (final.source \in {"attempt1", "attempt2"}
        /\ ~(final.has_agent /\ final.has_customer)) =>
       final.source = "attempt2"

C5_Witness ==
  /\ pc = "save"
  /\ SecondGotText
  /\ final.source = "attempt2"
  /\ ~final.has_customer

\* process_transcript_with_llm has returned to the batch loop.
Returned == pc = "save" /\ use_llm

\* C6: whatever the responses are, one call sends at most two requests, the
\* second only after the first response, and returns a transcript that is
\* either accepted (attempt 1 or 2) or a fallback; no exception reaches the
\* caller and there is no third request.
C6_AtMostTwoAttempts ==
  /\ requests <= 2
  /\ Len(responses) <= requests
  /\ requests = 2 => Len(responses) >= 1
  /\ pc = "attempt1" => (requests = 1 /\ responses = <<>>)
  /\ pc = "attempt2" => (requests = 2 /\ Len(responses) = 1)
  /\ status # "refinement_error"
  /\ Returned =>
       /\ final.source \in {"attempt1", "attempt2", "generic", "roles"}
       /\ Len(responses) = requests
       /\ requests \in {1, 2}
       /\ final.source \in {"attempt1", "generic"} <=> requests = 1

C6_Witness ==
  /\ Returned
  /\ requests = 2
  /\ ~responses[2].transport_ok
  /\ final.source = "roles"

RowOutcomes ==
  {"skipped", "saved", "transcription_error", "embedding_error",
   "clustering_error", "refinement_error", "write_error"}

C9_DistinctRoles ==
  (requests = 2 /\ Cardinality(Clusters(transcript_data)) >= 2) =>
    /\ likely_customer \in Clusters(transcript_data)
    /\ likely_agent \in Clusters(transcript_data)
    /\ likely_customer # likely_agent

C9_Witness ==
  /\ pc = "attempt2"
  /\ Cardinality(Clusters(transcript_data)) = 3
  /\ likely_customer # None /\ likely_agent # None
  /\ \E k \in 1..Len(speaker_scores) :
       /\ speaker_scores[k].speaker = likely_agent
       /\ speaker_scores[k].agent <= speaker_scores[k].customer

\* C10 (as stated): for every segment sequence the resolver ends with both
\* customer and agent resolved.
C10_Original ==
  requests = 2 => (likely_customer # None /\ likely_agent # None)

\* C10 (amended): the resolver never ends with both roles unresolved; both
\* are resolved when the segments use at least 2 clusters, and with a single
\* cluster exactly one role is resolved and the other stays unresolved.
C10_ResolvedRoles ==
  requests = 2 =>
    /\ ~(likely_customer = None /\ likely_agent = None)
    /\ Cardinality(Clusters(transcript_data)) >= 2 =>
         (likely_customer # None /\ likely_agent # None)
    /\ Cardinality(Clusters(transcript_data)) = 1 =>
         (likely_customer = None) # (likely_agent = None)

C10_Witness ==
  /\ pc = "attempt2"
  /\ Cardinality(Clusters(transcript_data)) = 1
  /\ likely_customer # None
  /\ likely_agent = None

\* C18: every segment of a transcribed file gets an embedding of 192
\* dimensions, the vector of its clip or the zero vector when the extraction
\* failed; the clip starts at the segment's start and ends at the smaller of
\* the segment's end and the duration; a failed extraction never ends the
\* file's processing.
C18_ClampAndZeroVector ==
  /\ status # "embedding_error"
  /\ pc = "cluster" =>
       /\ Len(embeddings) = Len(segments)
       /\ \A i \in 1..Len(segments) :
            /\ embeddings[i].kind \in {"vec", "zero"}
            /\ embeddings[i].dim = 192
            /\ embeddings[i].clip.start = segments[i].start
            /\ embeddings[i].clip.end <= duration
            /\ embeddings[i].clip.end <= segments[i].end
            /\ embeddings[i].clip.end \in {duration, segments[i].end}
       /\ embed_failed <=>
            \E i \in 1..Len(embeddings) : embeddings[i].kind = "zero"

C18_Witness ==
  /\ pc = "cluster"
  /\ Len(segments) = 3
  /\ embeddings[1].kind = "zero"
  /\ embeddings[2].kind = "vec"
  /\ embeddings[3].kind = "vec"
  /\ segments[3].end > duration
  /\ embeddings[3].clip.end = duration

\* C20: a fallback output has one line per segment, in the segments' order,
\* with the segment's start_time and text; only the label differs. The
\* attempt-1 fallback keeps "SPEAKER n" and resolves no role; in
\* create_fallback_transcript a line is CUSTOMER exactly when its cluster is
\* the resolved customer, AGENT exactly when it is the resolved agent, and
\* SPEAKER for any other cluster when both roles are resolved.
C20_FallbackFrame ==
  (pc = "save" /\ final.source \in {"generic", "roles"}) =>
    /\ Len(final.lines) = Len(transcript_data)
    /\ \A i \in 1..Len(transcript_data) :
         LET line == final.lines[i]
             segment == transcript_data[i]
         IN /\ line.start_time = segment.start_time
            /\ line.text = segment.text
            /\ final.source = "generic" =>
                 /\ line.role = "SPEAKER" /\ line.num = segment.speaker
                 /\ likely_customer = None /\ likely_agent = None
            /\ final.source = "roles" =>
                 /\ line.num = 0
                 /\ line.role \in {"CUSTOMER", "AGENT", "SPEAKER"}
                 /\ line.role = "CUSTOMER" <=> segment.speaker = likely_customer
                 /\ line.role = "AGENT" <=> segment.speaker = likely_agent
                 /\ (likely_customer # None /\ likely_agent # None
                       /\ segment.speaker \notin {likely_customer, likely_agent})
                      => line.role = "SPEAKER"

C20_Witness ==
  /\ pc = "save"
  /\ final.source = "roles"
  /\ Len(final.lines) = 3
  /\ {final.lines[i].role : i \in 1..3} = {"CUSTOMER", "AGENT", "SPEAKER"}
  /\ final.lines[1].start_time # final.lines[2].start_time
  /\ final.lines[2].start_time # final.lines[3].start_time

\* ------------------------------------- properties of the role resolution
\* The stages of retry_with_modified_prompt after the primary pass and after
\* the max-score fallback.
AfterPrimary == pc \in {"max_score", "word_count", "hints", "attempt2", "save"}
AfterMaxScore == pc \in {"word_count", "hints", "attempt2", "save"}

\* C11: when all segments belong to one cluster, the resolver never gives
\* that cluster both roles: after the primary pass at most one role is set,
\* at the end exactly one of likely_customer / likely_agent is that cluster
\* and the other is unresolved, and the fallback transcript labels every line
\* with that one role.
C11_SingleCluster ==
  Cardinality(Clusters(transcript_data)) = 1 =>
    /\ AfterPrimary => (likely_customer = None \/ likely_agent = None)
    /\ AfterMaxScore =>
         /\ (likely_customer = None) # (likely_agent = None)
         /\ {likely_customer, likely_agent} \ {None} = Clusters(transcript_data)
    /\ (pc = "save" /\ final.source = "roles") =>
         /\ Len(final.lines) = Len(transcript_data)
         /\ \A i \in 1..Len(final.lines) :
              final.lines[i].role =
                IF likely_customer # None THEN "CUSTOMER" ELSE "AGENT"

C11_Witness ==
  /\ pc = "save"
  /\ final.source = "roles"
  /\ Cardinality(Clusters(transcript_data)) = 1
  /\ likely_agent # None
  /\ likely_customer = None
  /\ Len(final.lines) >= 2
  /\ \A i \in 1..Len(final.lines) : final.lines[i].role = "AGENT"

\* Scoring is over: the stages from the primary pass on.
Scored == pc = "primary" \/ AfterPrimary

\* The resolver is through its three steps.
Resolved == pc \in {"hints", "attempt2", "save"}

\* C12: in the two-cluster scenario, whatever the order of the four
\* segments, cluster 0 (SPEAKER 1) ends scoring with customer score >= 2 and
\* cluster 1 (SPEAKER 2) with agent score >= 2, and the resolver makes
\* cluster 0 the customer and cluster 1 the agent.
C12_Scenario ==
  /\ Scored =>
       /\ \E k \in 1..Len(speaker_scores) :
            speaker_scores[k].speaker = 1 /\ speaker_scores[k].customer >= 2
       /\ \E k \in 1..Len(speaker_scores) :
            speaker_scores[k].speaker = 2 /\ speaker_scores[k].agent >= 2
  /\ Resolved => (likely_customer = 1 /\ likely_agent = 2)

C12_Witness ==
  /\ pc = "hints"
  /\ Len(transcript_data) = 4
  /\ transcript_data[1].text = "Can I have your account number?"
  /\ transcript_data[4].text = "thank you for calling"
  /\ speaker_scores[1].speaker = 2
  /\ likely_customer = 1
  /\ likely_agent = 2

\* C16: from the initialisation on, every cluster of the transcript has
\* exactly one score entry; right after the initialisation every entry is
\* (0,0); both scores are never negative, and no later stage removes, adds or
\* resets an entry or lowers a score.
C16_ScoreTable ==
  /\ [](pc # "init_scores" =>
          /\ Len(speaker_scores) = Cardinality(Clusters(transcript_data))
          /\ {speaker_scores[k].speaker : k \in 1..Len(speaker_scores)}
               = Clusters(transcript_data)
          /\ \A k \in 1..Len(speaker_scores) :
               speaker_scores[k].customer >= 0 /\ speaker_scores[k].agent >= 0)
  /\ [](pc = "text_pass" =>
          \A k \in 1..Len(speaker_scores) :
            speaker_scores[k].customer = 0 /\ speaker_scores[k].agent = 0)
  /\ [][pc # "init_scores" =>
          /\ Len(speaker_scores') = Len(speaker_scores)
          /\ \A k \in 1..Len(speaker_scores) :
               /\ speaker_scores'[k].speaker = speaker_scores[k].speaker
               /\ speaker_scores'[k].customer >= speaker_scores[k].customer
               /\ speaker_scores'[k].agent >= speaker_scores[k].agent]_vars

C16_Witness ==
  /\ pc = "primary"
  /\ Len(speaker_scores) = 3
  /\ \E k \in 1..Len(speaker_scores) :
       speaker_scores[k].customer > 3 /\ speaker_scores[k].agent >= 1
  /\ \E k \in 1..Len(speaker_scores) :
       speaker_scores[k].customer = 0 /\ speaker_scores[k].agent = 0

\* The consecutive pairs (i, i+1) of different clusters whose first text
\* ends with "?".
QuestionPairs ==
  {i \in 1..(Len(transcript_data) - 1) :
     /\ transcript_data[i].speaker # transcript_data[i + 1].speaker
     /\ EndsWithQuestion(transcript_data[i].text)}

\* C17: the adjacency stage adds to every cluster's agent score the number of
\* question pairs it opens and to its customer score the number of question
\* pairs it answers, once per pair, and nothing else: a pair of equal
\* clusters, or one whose first text does not end with "?", changes no score.
C17_AdjacencyBonus ==
  [][pc = "adjacency" =>
       /\ Len(speaker_scores') = Len(speaker_scores)
       /\ \A k \in 1..Len(speaker_scores) :
            LET s == speaker_scores[k].speaker IN
            /\ speaker_scores'[k].speaker = s
            /\ speaker_scores'[k].agent = speaker_scores[k].agent
                 + Cardinality({i \in QuestionPairs :
                                  transcript_data[i].speaker = s})
            /\ speaker_scores'[k].customer = speaker_scores[k].customer
                 + Cardinality({i \in QuestionPairs :
                                  transcript_data[i + 1].speaker = s})]_vars

C17_Witness ==
  /\ pc = "primary"
  /\ Len(transcript_data) = 3
  /\ EndsWithQuestion(transcript_data[1].text)
  /\ transcript_data[1].speaker = transcript_data[2].speaker
  /\ QuestionPairs = {2}
  /\ \E k \in 1..Len(speaker_scores) :
       /\ speaker_scores[k].speaker = transcript_data[3].speaker
       /\ speaker_scores[k].customer = 1

\* C19: for a non-empty transcript at least one role is resolved once the
\* primary pass and the max-score fallback are through, so the word-count
\* fallback changes nothing and create_fallback_transcript never gets two
\* unresolved roles (its odd/even labelling is not applied).
C19_NoGuessing ==
  /\ []((AfterMaxScore /\ transcript_data # <<>>) =>
          ~(likely_customer = None /\ likely_agent = None))
  /\ [][pc = "word_count" =>
          /\ likely_customer' = likely_customer
          /\ likely_agent' = likely_agent]_vars

C19_Witness ==
  /\ pc = "hints"
  /\ transcript_data # <<>>
  /\ \A k \in 1..Len(speaker_scores) :
       speaker_scores[k].customer = speaker_scores[k].agent
  /\ likely_customer # None
  /\ likely_agent = None

\* The lowest cluster id of a non-empty set.
LowestId(S) == CHOOSE x \in S : \A y \in S : x <= y

\* The speakers of the score table.
Scorers == {speaker_scores[k].speaker : k \in 1..Len(speaker_scores)}

CustomerScore(s) ==
  (CHOOSE e \in {speaker_scores[k] : k \in 1..Len(speaker_scores)} :
     e.speaker = s).customer

AgentScore(s) ==
  (CHOOSE e \in {speaker_scores[k] : k \in 1..Len(speaker_scores)} :
     e.speaker = s).agent

\* C14 (as stated): the primary pass visits the clusters in ascending id
\* order: of the clusters with customer score > agent score the one with the
\* lowest id is the customer, of those with agent score > customer score the
\* one with the lowest id is the agent.
C14_Original ==
  pc = "max_score" =>
    LET more_customer == {s \in Scorers : CustomerScore(s) > AgentScore(s)}
        more_agent == {s \in Scorers : AgentScore(s) > CustomerScore(s)}
    IN /\ more_customer # {} => likely_customer = LowestId(more_customer)
       /\ more_agent # {} => likely_agent = LowestId(more_agent)

\* The position of a speaker's first segment in the transcript.
FirstIndex(s) ==
  LowestId({i \in 1..Len(transcript_data) : transcript_data[i].speaker = s})

\* Of a set of speakers, the one that appears first in the transcript
\* (None for the empty set).
Earliest(S) ==
  IF S = {} THEN None
  ELSE CHOOSE s \in S : \A o \in S : FirstIndex(s) <= FirstIndex(o)

\* C14 (amended): the primary pass visits the clusters in the order of their
\* first appearance in the transcript: of the clusters with customer score >
\* agent score the one that appears first is the customer, of those with
\* agent score > customer score the one that appears first is the agent, and
\* a role no cluster qualifies for stays unresolved.
C14_FirstAppearanceOrder ==
  pc = "max_score" =>
    LET more_customer == {s \in Scorers : CustomerScore(s) > AgentScore(s)}
        more_agent == {s \in Scorers : AgentScore(s) > CustomerScore(s)}
    IN /\ likely_customer = Earliest(more_customer)
       /\ likely_agent = Earliest(more_agent)

C14_Witness ==
  /\ pc = "max_score"
  /\ likely_customer # None
  /\ \E s \in Scorers :
       /\ s < likely_customer
       /\ CustomerScore(s) > AgentScore(s)

\* C15 (as stated): the max-score fallback gives a role still unresolved to
\* the cluster with the highest score for that role among the clusters that do
\* not hold the other role, and of several clusters with that highest score
\* to the one with the lowest id.
C15_Original ==
  [][pc = "max_score" =>
       /\ likely_customer = None =>
            LET free == {s \in Scorers : s # likely_agent}
                top == {s \in free : \A o \in free :
                          CustomerScore(o) <= CustomerScore(s)}
            IN free # {} => likely_customer' = LowestId(top)
       /\ likely_agent = None =>
            LET free == {s \in Scorers : s # likely_customer'}
                top == {s \in free : \A o \in free :
                          AgentScore(o) <= AgentScore(s)}
            IN free # {} => likely_agent' = LowestId(top)]_vars

\* C15 (amended): the max-score fallback leaves a resolved role as it is and
\* gives a role still unresolved to the cluster with the highest score for
\* that role among the clusters that do not hold the other role; of several
\* clusters with that highest score the one that appears first in the
\* transcript is chosen, and with no such cluster the role stays unresolved.
C15_FirstHighest ==
  [][pc = "max_score" =>
       /\ likely_customer' =
            IF likely_customer # None THEN likely_customer
            ELSE LET free == {s \in Scorers : s # likely_agent}
                 IN Earliest({s \in free : \A o \in free :
                                CustomerScore(o) <= CustomerScore(s)})
       /\ likely_agent' =
            IF likely_agent # None THEN likely_agent
            ELSE LET free == {s \in Scorers : s # likely_customer'}
                 IN Earliest({s \in free : \A o \in free :
                                AgentScore(o) <= AgentScore(s)})]_vars

C15_Witness ==
  /\ pc = "word_count"
  /\ likely_customer # None
  /\ CustomerScore(likely_customer) <= AgentScore(likely_customer)
  /\ \E s \in Scorers :
       /\ s < likely_customer
       /\ s # likely_agent
       /\ CustomerScore(s) = CustomerScore(likely_customer)

\* ------------------------------------------ properties of the line format
\* The first position from i on at which the piece is found (0: nowhere).
RECURSIVE IndexOf(_, _, _)
IndexOf(pieces, piece, i) ==
  IF i > Len(pieces) THEN 0
  ELSE IF pieces[i] = piece THEN i ELSE IndexOf(pieces, piece, i + 1)

\* A rendered line split at the first " at " and at the next ": ".
Parsed(pieces) ==
  LET a == IndexOf(pieces, " at ", 1)
      b == IndexOf(pieces, ": ", a + 1)
  IN [label |-> SubSeq(pieces, 1, a - 1),
      start_time |-> SubSeq(pieces, a + 1, b - 1),
      text |-> SubSeq(pieces, b + 1, Len(pieces))]

DigitChars == {"0", "1", "2", "3", "4", "5", "6", "7", "8", "9"}

\* HH:MM:SS: two digits, a colon, two digits, a colon, two digits.
IsHHMMSS(t) ==
  /\ Len(t) = 8
  /\ t[3] = ":" /\ t[6] = ":"
  /\ \A i \in {1, 2, 4, 5, 7, 8} : t[i] \in DigitChars

\* C13 (as stated): every line of a composed transcript is
\* "<ROLE> at <HH:MM:SS>: <text>" with a zero-padded two-digit hour, and
\* splitting the line at " at " and the following ": " gives back the label,
\* the HH:MM:SS start time and the text.
C13_Original ==
  (pc = "save" /\ final.source \in {"generic", "roles"}) =>
    \A i \in 1..Len(final.lines) :
      LET line == final.lines[i]
          p == Parsed(Render(line))
      IN /\ p.label = Label(line)
         /\ p.start_time = line.start_time
         /\ p.text = <<line.text>>
         /\ IsHHMMSS(p.start_time)

====
